---- MODULE Spec2Model ----
(***************************************************************************)
(* A model of the HR application's record bookkeeping: soft deletion of    *)
(* employees, the employee views' querysets, payroll processing and salary *)
(* slips, salary records, accommodation allocations, maintenance requests, *)
(* geofence containment and geofence tracking.                             *)
(*                                                                         *)
(* Every subsystem has its own specification over the same variables; the  *)
(* variables of the other subsystems stay at their initial value.          *)
(***************************************************************************)
EXTENDS Integers, Sequences, FiniteSets, TLC

\* ---------------------------------------------------------------- bounds
NumEmp == 2        \* employees in the Employee table
LastFourDigit == 9999   \* the largest number "{:04d}" writes with four digits
SlipSlack == 3          \* slip tables start this near to empty and to 10000 rows
MaxSlips == 3      \* process_payroll is not started with this many slips stored
MaxSal == 4        \* rows the Salary table can hold
NumAcc == 2        \* accommodations
MaxAlloc == 3      \* rows the AccommodationAllocation table can hold
NumProc == 2       \* requests served at the same time
GridMax == 3       \* geofence corners and points have latitudes 0..GridMax
TaxDelta == 2      \* incomes lie this many rupees around the end of a slab
MaxLog == 6        \* update_location is called while the log is shorter
MaxDate == 8       \* the calendar: dates 1..MaxDate, date 1 a Monday, the last
                   \* one date.max
NumMail == 2       \* the official e-mail addresses typed into the wizard

\* a null column; primary keys, user ids and timestamps start at 1
None == 0

VARIABLES
    employees,      \* Employee table: pk -> row
    user_active,    \* auth User.is_active of the user linked to each employee
    salaries,       \* Salary table: pk -> row
    payroll,        \* the PayrollProcessing record of one month
    salary_slips,   \* SalarySlip table, in creation order (pk = index)
    response,       \* what the last request or method call did and answered
    accommodations, \* Accommodation table: pk -> row
    allocations,    \* AccommodationAllocation table: pk -> row
    requests,       \* MaintenanceRequest table: pk -> row
    procs,          \* the requests being served at once: where each one is
                    \* and the MaintenanceRequest object it has loaded
    mr_saves,       \* history: the calls in the order of their save()
    geo,            \* a geofence, a point and what contains_point answered
    geofences,      \* GeofenceArea rows, by pk, which is their order by name
    tracking,       \* the EmployeeTracking row of one employee
    tracking_log,   \* TrackingLog rows in the order of their creation
    tax_rec,        \* a TaxDeduction object and what calculate_tax made of it
    session,        \* the stored session of the staff user: key -> value
    auth_user,      \* usernames of the User rows the wizard created
    new_employees,  \* Employee rows the wizard created
    serializer,     \* settings.SESSION_SERIALIZER: "json" or "pickle"
    leave,          \* a Leave row
    attendance,     \* Attendance table, in creation order
    holidays,       \* the dates of the Holiday rows
    leave_loop,     \* where a running Leave.approve() is: pc, current_date
    savers          \* the Salary.save() calls running at once: where each
                    \* is and the Salary object it saves

empVars == <<employees, user_active, payroll, salary_slips>>
accVars == <<accommodations, allocations>>
mntVars == <<requests, procs, mr_saves>>
trkVars == <<geo, geofences, tracking, tracking_log>>
wizVars == <<session, auth_user, new_employees, serializer>>
attVars == <<leave, attendance, holidays, leave_loop>>
extVars == <<tax_rec, wizVars, attVars, savers>>
oldVars == <<empVars, salaries, accVars, mntVars, trkVars>>
exceptTax == <<wizVars, attVars, savers>>
exceptWiz == <<tax_rec, attVars, savers>>
exceptAtt == <<tax_rec, wizVars, savers>>
exceptSavers == <<tax_rec, wizVars, attVars>>
vars == <<employees, user_active, salaries, payroll, salary_slips, response,
          accommodations, allocations, requests, procs, mr_saves, geo,
          geofences, tracking, tracking_log, tax_rec, session, auth_user,
          new_employees, serializer, leave, attendance, holidays,
          leave_loop, savers>>

\* ------------------------------------------------------- users and rows
EmpIds == 1..NumEmp
\* Users: employee e's linked user has id e (Employee.user, one to one);
\* two more users have no employee profile
StaffUser == NumEmp + 1  \* a user with is_staff = True
GuestUser == NumEmp + 2  \* a logged-in user who is not staff
Users == EmpIds \cup {StaffUser, GuestUser}
\* timezone.now(): a time that is never None
Now == 1

is_staff(u) == u = StaffUser
\* hasattr(user, 'employee_profile'), and the profile's pk
has_profile(u) == u \in EmpIds
employee_profile(u) == u


\* soft_delete that sets the flag and the actor but forgets the timestamp
soft_delete_no_timestamp(row, user, now) ==
    [row EXCEPT !.is_deleted = TRUE, !.deleted_by = user]

\* SoftDeleteModel.soft_delete(user): the row after the call at time now
soft_delete(row, user, now) ==
    [row EXCEPT !.is_deleted = TRUE, !.deleted_at = now, !.deleted_by = user]

\* SoftDeleteModel.restore()
restore(row) ==
    [row EXCEPT !.is_deleted = FALSE, !.deleted_at = None, !.deleted_by = None]

\* ------------------------------------------------ employee querysets
\* the base queryset without its is_deleted filter
all_rows == DOMAIN employees

\* Employee.objects.filter(is_deleted=False)
not_deleted == {e \in DOMAIN employees : ~employees[e].is_deleted}

EmployeeStatuses == {"active", "terminated"}
StatusFilters == {""} \cup EmployeeStatuses

\* the status filter of employee_list and export_employees (empty = no filter)
filter_status(qs, status) ==
    IF status # "" THEN {e \in qs : employees[e].status = status} ELSE qs

\* a non-staff user sees the employees reporting to them, a user without
\* an employee profile sees nothing
manager_scope(u, qs) ==
    IF is_staff(u) THEN qs
    ELSE IF has_profile(u)
         THEN {e \in qs : employees[e].reporting_manager = employee_profile(u)}
         ELSE {}

\* the employees on the pages of employee_list
employee_list(u, status) == manager_scope(u, filter_status(not_deleted, status))

\* test data for the search: which query strings an employee's names, ids,
\* e-mails or phone contain (icontains)
Queries == {"", "a", "b"}
icontains(e, q) == q = "b" \/ (q = "a" /\ e % 2 = 1)

\* the employees on the pages of employee_search; an empty query lists none
employee_search(u, q) ==
    IF q = "" THEN {}
    ELSE manager_scope(u, {e \in not_deleted : icontains(e, q)})

\* the rows export_employees writes (staff only)
export_employees(u, status) ==
    IF is_staff(u) THEN filter_status(not_deleted, status) ELSE {}

\* get_object_or_404(Employee, pk=employee_id, is_deleted=False): the pk, or
\* None when Http404 is raised
get_employee_or_404(id) ==
    IF id \in DOMAIN employees /\ ~employees[id].is_deleted THEN id ELSE None

\* employee_detail's answer: 404, 500 (request.user.employee_profile raises
\* for a user without a profile), 403 (PermissionDenied) or 200
employee_detail(u, id) ==
    IF get_employee_or_404(id) = None THEN "404"
    ELSE IF is_staff(u) THEN "200"
    ELSE IF ~has_profile(u) THEN "500"
    ELSE IF employee_profile(u) = id THEN "200"
    ELSE IF employees[id].reporting_manager # employee_profile(u) THEN "403"
    ELSE "200"

\* ids a request can name: the rows and one id that no row has
RequestIds == 1..(NumEmp + 1)

\* ------------------------------------------------ employee operations
UnchangedPayroll == UNCHANGED <<payroll, salary_slips, salaries, accVars, mntVars, trkVars, extVars>>

EmployeeListView ==
    /\ \E u \in Users, s \in StatusFilters :
          response' = [op |-> "employee_list",
                       code |-> IF employee_list(u, s) = {} THEN "empty" ELSE "200"]
    /\ UNCHANGED <<employees, user_active>>
    /\ UnchangedPayroll

EmployeeSearchView ==
    /\ \E u \in Users, q \in Queries :
          response' = [op |-> "employee_search",
                       code |-> IF employee_search(u, q) = {} THEN "empty" ELSE "200"]
    /\ UNCHANGED <<employees, user_active>>
    /\ UnchangedPayroll

ExportEmployeesView ==
    /\ \E u \in Users, s \in StatusFilters :
          response' = [op |-> "export_employees",
                       code |-> IF is_staff(u) THEN "200" ELSE "302"]
    /\ UNCHANGED <<employees, user_active>>
    /\ UnchangedPayroll

EmployeeDetailView ==
    /\ \E u \in Users, id \in RequestIds :
          response' = [op |-> "employee_detail", code |-> employee_detail(u, id),
                       user |-> u, id |-> id]
    /\ UNCHANGED <<employees, user_active>>
    /\ UnchangedPayroll

\* employee_delete: staff only; GET renders the confirmation, POST soft
\* deletes the employee and deactivates the linked user
EmployeeDelete(u, id, method) ==
    /\ IF ~is_staff(u)
       THEN /\ response' = [op |-> "employee_delete", code |-> "302"]
            /\ UNCHANGED <<employees, user_active>>
       ELSE IF get_employee_or_404(id) = None
       THEN /\ response' = [op |-> "employee_delete", code |-> "404"]
            /\ UNCHANGED <<employees, user_active>>
       ELSE IF method = "POST"
       THEN /\ employees' = [employees EXCEPT ![id] = soft_delete(@, u, Now)]
            /\ user_active' = [user_active EXCEPT ![id] = FALSE]
            /\ response' = [op |-> "employee_delete", code |-> "deleted", ids |-> {id}]
       ELSE /\ response' = [op |-> "employee_delete", code |-> "200"]
            /\ UNCHANGED <<employees, user_active>>
    /\ UnchangedPayroll

EmployeeDeleteView ==
    \E u \in {StaffUser, GuestUser}, id \in RequestIds, method \in {"GET", "POST"} :
        EmployeeDelete(u, id, method)

\* employee_bulk_action: staff only; 'delete' soft deletes every selected
\* employee that is not deleted yet, 'change_status' updates their status
BulkActions == {"", "delete", "change_status"}

EmployeeBulkAction(u, selected_ids, action, new_status) ==
    LET qs == {e \in not_deleted : e \in selected_ids} IN
    /\ IF ~is_staff(u)
       THEN /\ response' = [op |-> "employee_bulk_action", code |-> "403"]
            /\ UNCHANGED <<employees, user_active>>
       ELSE IF selected_ids = {} \/ action = ""
       THEN /\ response' = [op |-> "employee_bulk_action", code |-> "error"]
            /\ UNCHANGED <<employees, user_active>>
       ELSE IF action = "delete"
       THEN /\ employees' = [e \in DOMAIN employees |->
                               IF e \in qs THEN soft_delete(employees[e], u, Now)
                               ELSE employees[e]]
            /\ user_active' = [e \in DOMAIN user_active |->
                               IF e \in qs THEN FALSE ELSE user_active[e]]
            /\ response' = [op |-> "employee_bulk_action", code |-> "deleted", ids |-> qs]
       ELSE /\ employees' = [e \in DOMAIN employees |->
                               IF e \in qs /\ new_status # ""
                               THEN [employees[e] EXCEPT !.status = new_status]
                               ELSE employees[e]]
            /\ UNCHANGED user_active
            /\ response' = [op |-> "employee_bulk_action", code |-> "status"]
    /\ UnchangedPayroll

\* the posted forms: a selection of ids, an action and, for change_status,
\* a new status
EmployeeBulkActionView ==
    \E u \in {StaffUser, GuestUser}, ids \in SUBSET RequestIds :
        \/ \E action \in {"", "delete"} : EmployeeBulkAction(u, ids, action, "")
        \/ \E new_status \in StatusFilters :
              EmployeeBulkAction(u, ids, "change_status", new_status)

\* a direct call of Employee.soft_delete(user) (user defaults to None)
EmployeeSoftDelete ==
    /\ \E id \in DOMAIN employees, u \in {None, StaffUser} :
          /\ employees' = [employees EXCEPT ![id] = soft_delete(@, u, Now)]
          /\ response' = [op |-> "soft_delete", code |-> "ok"]
    /\ UNCHANGED user_active
    /\ UnchangedPayroll

\* a direct call of Employee.restore()
EmployeeRestore ==
    /\ \E id \in DOMAIN employees :
          /\ employees' = [employees EXCEPT ![id] = restore(@)]
          /\ response' = [op |-> "restore", code |-> "ok"]
    /\ UNCHANGED user_active
    /\ UnchangedPayroll

\* ------------------------------------------------------------- payroll
\* Salary.objects.filter(employee=e, is_current=True, effective_from__lte=end_date)
current_salaries(e, end_date) ==
    {pk \in DOMAIN salaries :
        /\ salaries[pk].employee = e
        /\ salaries[pk].is_current
        /\ salaries[pk].effective_from <= end_date}

\* encoding of a slip number's numeric part as a string of digits, at least
\* four of them (f"{new_number:04d}")
RECURSIVE Digits(_)
Digits(n) == IF n < 10 THEN <<n>> ELSE Append(Digits(n \div 10), n % 10)

RECURSIVE ZeroPad(_, _)
ZeroPad(ds, width) == IF Len(ds) >= width THEN ds ELSE ZeroPad(<<0>> \o ds, width)

Format04d(n) == ZeroPad(Digits(n), 4)

RECURSIVE ParseInt(_)
\* int() of a string of digits
ParseInt(ds) ==
    IF ds = <<>> THEN 0 ELSE 10 * ParseInt(SubSeq(ds, 1, Len(ds) - 1)) + ds[Len(ds)]

RECURSIVE StrLess(_, _)
\* string order of the database: a < b, character by character
StrLess(a, b) ==
    IF b = <<>> THEN FALSE
    ELSE IF a = <<>> THEN TRUE
    ELSE IF Head(a) # Head(b) THEN Head(a) < Head(b)
    ELSE StrLess(Tail(a), Tail(b))

\* SalarySlip.generate_slip_number: one more than the number of the slip whose
\* slip_number is last in string order (all slips here share the prefix of
\* the payroll's month)
\* the later of two strings in the database's order
str_max(a, b) == IF StrLess(a, b) THEN b ELSE a

RECURSIVE last_slip(_, _, _)
\* order_by('-slip_number').first() among the rows lo..hi of the table
last_slip(slips, lo, hi) ==
    IF lo = hi THEN slips[lo].slip_number
    ELSE str_max(last_slip(slips, lo, (lo + hi) \div 2),
                 last_slip(slips, (lo + hi) \div 2 + 1, hi))

generate_slip_number(slips) ==
    IF slips = <<>> THEN Format04d(1)
    ELSE Format04d(ParseInt(last_slip(slips, 1, Len(slips))) + 1)

\* Employee.objects.filter(is_deleted=False, status='active',
\*                         date_joined__lte=self.end_date)
active_employees(end_date) ==
    {e \in not_deleted :
        /\ employees[e].status = "active"
        /\ employees[e].date_joined <= end_date}

\* the queryset in the model's ordering (employee_id)
RECURSIVE InOrder(_)
InOrder(S) ==
    IF S = {} THEN <<>>
    ELSE LET m == CHOOSE x \in S : \A y \in S : x <= y
         IN <<m>> \o InOrder(S \ {m})

\* The loop of process_payroll over the employees still to do.  fail_at is
\* the employee at whose SalarySlip.objects.create the database raises (None:
\* it never does).  The result is the slips stored, the total so far and
\* whether an exception left the loop.
RECURSIVE process_employees(_, _, _, _, _)
process_employees(todo, slips, total, end_date, fail_at) ==
    IF todo = <<>> THEN [slips |-> slips, total |-> total, raised |-> FALSE]
    ELSE LET e == Head(todo)
             found == current_salaries(e, end_date)
         IN IF found = {}
            THEN \* Salary.DoesNotExist: the employee is skipped
                 process_employees(Tail(todo), slips, total, end_date, fail_at)
            ELSE IF Cardinality(found) > 1 \/ fail_at = e
            THEN \* MultipleObjectsReturned, or the insert fails
                 [slips |-> slips, total |-> total, raised |-> TRUE]
            ELSE LET pk == CHOOSE x \in found : TRUE
                     slip == [employee |-> e, salary |-> pk,
                              net_amount |-> salaries[pk].net_salary,
                              payment_status |-> "pending",
                              slip_number |-> generate_slip_number(slips)]
                 IN process_employees(Tail(todo), Append(slips, slip),
                                      total + salaries[pk].net_salary,
                                      end_date, fail_at)

\* the status each method requires: any other one raises ValueError
may_process(status) == status = "draft"

approve_any_time(status) == status \in {"completed", "approved", "paid"}

may_approve(status) == status = "completed"

pay_unapproved(status) == status \in {"completed", "approved"}

may_mark_paid(status) == status = "approved"

\* a variant that leaves the status alone when processing failed
error_status_kept == "processing"

\* the status process_payroll's except branch saves before it re-raises
error_status == "draft"

\* what a method call answers: code is its result or exception, saves the
\* status written by each self.save() of the call, in order
PayrollResponse(op, code, saves) == [op |-> op, code |-> code, saves |-> saves]

\* PayrollProcessing.process_payroll
ProcessPayroll(fail_at) ==
    /\ Len(salary_slips) < MaxSlips
    /\ IF ~may_process(payroll.status)
       THEN /\ response' = PayrollResponse("process_payroll", "ValueError", <<>>)
            /\ UNCHANGED <<payroll, salary_slips>>
       ELSE LET qs == active_employees(payroll.end_date)
                run == process_employees(InOrder(qs), salary_slips, 0,
                                         payroll.end_date, fail_at)
            IN /\ salary_slips' = run.slips
               /\ IF run.raised
                  THEN /\ payroll' = [payroll EXCEPT
                                         !.status = error_status,
                                         !.total_employees = Cardinality(qs)]
                       /\ response' = PayrollResponse("process_payroll", "raised",
                                           <<"processing", error_status>>)
                  ELSE /\ payroll' = [payroll EXCEPT
                                         !.status = "completed",
                                         !.total_employees = Cardinality(qs),
                                         !.total_amount = run.total]
                       /\ response' = PayrollResponse("process_payroll", "True",
                                           <<"processing", "completed">>)
    /\ UNCHANGED <<employees, user_active, salaries, accVars, mntVars, trkVars, extVars>>

ProcessPayrollCall == \E fail_at \in {None} \cup EmpIds : ProcessPayroll(fail_at)

\* PayrollProcessing.approve
Approve ==
    /\ IF ~may_approve(payroll.status)
       THEN /\ response' = PayrollResponse("approve", "ValueError", <<>>)
            /\ UNCHANGED <<payroll, salary_slips>>
       ELSE /\ payroll' = [payroll EXCEPT !.status = "approved"]
            /\ salary_slips' = [i \in DOMAIN salary_slips |->
                                  [salary_slips[i] EXCEPT !.payment_status = "approved"]]
            /\ response' = PayrollResponse("approve", "ok", <<"approved">>)
    /\ UNCHANGED <<employees, user_active, salaries, accVars, mntVars, trkVars, extVars>>

\* PayrollProcessing.mark_paid
MarkPaid ==
    /\ IF ~may_mark_paid(payroll.status)
       THEN /\ response' = PayrollResponse("mark_paid", "ValueError", <<>>)
            /\ UNCHANGED <<payroll, salary_slips>>
       ELSE /\ payroll' = [payroll EXCEPT !.status = "paid"]
            /\ salary_slips' = [i \in DOMAIN salary_slips |->
                                  [salary_slips[i] EXCEPT !.payment_status = "paid"]]
            /\ response' = PayrollResponse("mark_paid", "ok", <<"paid">>)
    /\ UNCHANGED <<employees, user_active, salaries, accVars, mntVars, trkVars, extVars>>

\* PayrollProcessing.lock
Lock ==
    /\ payroll' = [payroll EXCEPT !.is_locked = TRUE]
    /\ response' = PayrollResponse("lock", "ok", <<payroll.status>>)
    /\ UNCHANGED <<employees, user_active, salaries, salary_slips, accVars, mntVars, trkVars, extVars>>

\* SalarySlip(...).save() for an employee with no slip_number given: the
\* number is generated, and the unique column refuses one that a row has
SlipSave(e) ==
    /\ \/ Len(salary_slips) < 2 * MaxSlips
       \/ Len(salary_slips) >= LastFourDigit - SlipSlack
    /\ \E number \in {generate_slip_number(salary_slips)} :
          IF \E i \in DOMAIN salary_slips :
                 salary_slips[i].slip_number = number
          THEN /\ response' = [op |-> "slip_save", code |-> "IntegrityError",
                               slip_number |-> number]
               /\ UNCHANGED salary_slips
          ELSE /\ response' = [op |-> "slip_save", code |-> "ok",
                               slip_number |-> number]
               /\ salary_slips' =
                      Append(salary_slips,
                             [employee |-> e, salary |-> None,
                              net_amount |-> 0, payment_status |-> "pending",
                              slip_number |-> number])
    /\ UNCHANGED <<employees, user_active, salaries, payroll, accVars,
                   mntVars, trkVars, extVars>>

\* ------------------------------------------------------ fixtures
\* The Employee table at the start: every employee is stored and not
\* deleted, employee e reports to e - 1, and the last one may have joined
\* after the payroll period.
EmployeeTable(d) ==
    [e \in EmpIds |->
        [is_deleted |-> FALSE, deleted_at |-> None, deleted_by |-> None,
         status |-> "active",
         date_joined |-> IF e = NumEmp THEN d ELSE 1,
         reporting_manager |-> IF e = 1 THEN None ELSE e - 1]]

\* The Salary table at the start of a payroll run: every employee but
\* possibly the last has a current salary; the first employee also has a
\* superseded one.
SalaryFixtures ==
    {[pk \in have \cup {NumEmp + 1} |->
        [employee |-> IF pk \in EmpIds THEN pk ELSE 1, is_current |-> pk \in EmpIds,
         effective_from |-> 1, net_salary |-> 10 * pk]] :
            have \in {EmpIds, EmpIds \ {NumEmp}}}

NewPayroll == [status |-> "draft", total_employees |-> 0, total_amount |-> 0,
               is_locked |-> FALSE, end_date |-> 2]

\* the tables a specification does not use stay as they are here
IdleEmployees ==
    /\ employees = EmployeeTable(1)
    /\ user_active = [e \in EmpIds |-> TRUE]

IdlePayroll ==
    /\ salaries = <<>>
    /\ payroll = NewPayroll
    /\ salary_slips = <<>>

IdleAccommodation ==
    /\ accommodations = <<>>
    /\ allocations = <<>>

IdleMaintenance ==
    /\ requests = <<>>
    /\ procs = <<>>
    /\ mr_saves = <<>>

IdleGeo == geo = <<>>

IdleTracking ==
    /\ geofences = <<>>
    /\ tracking = <<>>
    /\ tracking_log = <<>>

IdleTax == tax_rec = <<>>

\* the tables of the other applications, unused
IdleWizard ==
    /\ session = <<>>
    /\ auth_user = {}
    /\ new_employees = {}
    /\ serializer = "json"

IdleLeave ==
    /\ leave = <<>>
    /\ attendance = <<>>
    /\ holidays = {}
    /\ leave_loop = <<>>

IdleSavers == savers = <<>>

IdleOthers ==
    /\ IdleTax
    /\ IdleWizard
    /\ IdleLeave
    /\ IdleSavers

Started == response = [op |-> "start", code |-> "ok"]

\* --------------------------------- Spec: the employee views and deletion
Init ==
    /\ IdleEmployees
    /\ IdlePayroll
    /\ IdleAccommodation
    /\ IdleMaintenance
    /\ IdleGeo
    /\ IdleTracking
    /\ IdleOthers
    /\ Started

Next ==
    \/ EmployeeListView
    \/ EmployeeSearchView
    \/ ExportEmployeesView
    \/ EmployeeDetailView
    \/ EmployeeDeleteView
    \/ EmployeeBulkActionView
    \/ EmployeeSoftDelete
    \/ EmployeeRestore

Spec == Init /\ [][Next]_vars

\* ------------------- SpecPayroll: payroll runs over the employee table
InitPayroll ==
    /\ employees \in {EmployeeTable(1), EmployeeTable(3)}
    /\ user_active = [e \in EmpIds |-> TRUE]
    /\ salaries \in SalaryFixtures
    /\ payroll = NewPayroll
    /\ salary_slips = <<>>
    /\ IdleAccommodation
    /\ IdleMaintenance
    /\ IdleGeo
    /\ IdleTracking
    /\ IdleOthers
    /\ Started

NextPayroll ==
    \/ EmployeeListView
    \/ EmployeeSearchView
    \/ ExportEmployeesView
    \/ EmployeeDetailView
    \/ EmployeeDeleteView
    \/ ProcessPayrollCall
    \/ Approve
    \/ MarkPaid
    \/ Lock

SpecPayroll == InitPayroll /\ [][NextPayroll]_vars

\* the methods of one PayrollProcessing record, called in any order
NextStatus ==
    \/ ProcessPayrollCall
    \/ Approve
    \/ MarkPaid
    \/ Lock

SpecStatus == InitPayroll /\ [][NextStatus]_vars

\* the slips of one payroll month after k saves, the first made them
\* number 1: each got the number generated for it
SlipTable(k) ==
    [i \in 1..k |-> [employee |-> 1 + (i % NumEmp), salary |-> None,
                     net_amount |-> 0, payment_status |-> "paid",
                     slip_number |-> Format04d(i)]]

InitSlips ==
    /\ IdleEmployees
    /\ salaries = <<>>
    /\ payroll = [NewPayroll EXCEPT !.status = "paid"]
    /\ \E k \in (0..SlipSlack) \cup
                 ((LastFourDigit - SlipSlack)..(LastFourDigit + 1)) :
           salary_slips = SlipTable(k)
    /\ IdleAccommodation
    /\ IdleMaintenance
    /\ IdleGeo
    /\ IdleTracking
    /\ IdleOthers
    /\ Started

NextSlips == \E e \in EmpIds : SlipSave(e)

SpecSlips == InitSlips /\ [][NextSlips]_vars

\* ------------------------------------------------- Salary: SpecSalary
\* a table with row pk written (inserted when the table has no such pk)
write_row(tbl, pk, row) ==
    [k \in DOMAIN tbl \cup {pk} |-> IF k = pk THEN row ELSE tbl[k]]

\* the pk the database gives the next inserted row
next_pk(tbl) == Len(tbl) + 1

\* an update that changes no row
unset_nothing(tbl, pk, employee) == tbl

\* Salary.objects.filter(employee=e, is_current=True).exclude(pk=pk)
\*       .update(is_current=False)
unset_other_current(tbl, pk, employee) ==
    [k \in DOMAIN tbl |->
        IF tbl[k].employee = employee /\ tbl[k].is_current /\ k # pk
        THEN [tbl[k] EXCEPT !.is_current = FALSE]
        ELSE tbl[k]]

\* Salary.save of the object with this pk (a new object gets next_pk) and
\* these field values
Salary_save(tbl, pk, row) ==
    write_row(IF row.is_current THEN unset_other_current(tbl, pk, row.employee)
              ELSE tbl,
              pk, row)

\* a Salary object in memory: any employee, current or not
SalaryObjects ==
    [employee : EmpIds, is_current : BOOLEAN, effective_from : {1},
     net_salary : {10}]

\* save() of a new Salary, or of a stored one with whatever its fields are
\* in memory
SalarySave ==
    /\ \E pk \in (DOMAIN salaries \cup {next_pk(salaries)}) \cap (1..MaxSal),
          row \in SalaryObjects :
          /\ salaries' = Salary_save(salaries, pk, row)
          /\ response' = [op |-> "salary_save",
                          code |-> IF row.is_current /\
                                      unset_other_current(salaries, pk, row.employee)
                                          # salaries
                                   THEN "unset" ELSE "ok"]
    /\ UNCHANGED <<empVars, accVars, mntVars, trkVars, extVars>>

InitSalary ==
    /\ IdleEmployees
    /\ IdlePayroll
    /\ IdleAccommodation
    /\ IdleMaintenance
    /\ IdleGeo
    /\ IdleTracking
    /\ IdleOthers
    /\ Started

NextSalary == SalarySave

SpecSalary == InitSalary /\ [][NextSalary]_vars

\* ------------------------------------ accommodation allocations: SpecAlloc
AccIds == 1..NumAcc

\* AccommodationAllocation.objects.filter(accommodation=a, is_active=True)
active_allocations(tbl, a) ==
    {k \in DOMAIN tbl : tbl[k].accommodation = a /\ tbl[k].is_active}

\* Accommodation.mark_occupied / mark_available
mark_occupied(accs, a) == [accs EXCEPT ![a].status = "occupied"]
mark_available(accs, a) == [accs EXCEPT ![a].status = "available"]

\* AccommodationAllocation.save of a new allocation (pk is None): the row is
\* inserted and an active one marks its accommodation occupied
AllocationCreate(a, is_active) ==
    /\ Len(allocations) < MaxAlloc
    /\ allocations' = write_row(allocations, next_pk(allocations),
                                [accommodation |-> a, is_active |-> is_active,
                                 end_date |-> None])
    /\ accommodations' = IF is_active THEN mark_occupied(accommodations, a)
                         ELSE accommodations
    /\ response' = [op |-> "allocation_create", code |-> "ok"]
    /\ UNCHANGED <<empVars, salaries, mntVars, trkVars, extVars>>

AllocationCreateCall == \E a \in AccIds, is_active \in BOOLEAN : AllocationCreate(a, is_active)

\* a test for other allocations that never finds one
other_active_unseen(tbl, a, pk) == FALSE

\* AccommodationAllocation.objects.filter(accommodation=a, is_active=True)
\*                         .exclude(pk=pk).exists()
other_active_exists(tbl, a, pk) == active_allocations(tbl, a) \ {pk} # {}

\* AccommodationAllocation.end_allocation
EndAllocation(pk) ==
    LET a == allocations[pk].accommodation
        ended == [allocations EXCEPT ![pk].end_date = Now, ![pk].is_active = FALSE]
        other_active == other_active_exists(ended, a, pk)
    IN /\ allocations' = ended
       /\ accommodations' = IF ~other_active THEN mark_available(accommodations, a)
                            ELSE accommodations
       /\ response' = [op |-> "end_allocation", pk |-> pk,
                       code |-> IF other_active THEN "kept" ELSE "freed"]
       /\ UNCHANGED <<empVars, salaries, mntVars, trkVars, extVars>>

EndAllocationCall == \E pk \in DOMAIN allocations : EndAllocation(pk)

InitAlloc ==
    /\ IdleEmployees
    /\ IdlePayroll
    /\ accommodations = [a \in AccIds |-> [status |-> "available"]]
    /\ allocations = <<>>
    /\ IdleMaintenance
    /\ IdleGeo
    /\ IdleTracking
    /\ IdleOthers
    /\ Started

NextAlloc ==
    \/ AllocationCreateCall
    \/ EndAllocationCall

SpecAlloc == InitAlloc /\ [][NextAlloc]_vars

\* --------------------------- maintenance requests, concurrently: SpecMaint
\* MaintenanceRequest.assign / complete / cancel / reject, up to their
\* save(): the object in memory after the field assignments
assign(obj, employee) ==
    [obj EXCEPT !.assigned_to = employee, !.status = "in_progress"]

complete(obj) ==
    [obj EXCEPT !.status = "completed", !.completed_date = Now]

cancel(obj) == [obj EXCEPT !.status = "cancelled"]

reject(obj, reason) ==
    [obj EXCEPT !.status = "rejected", !.resolution_notes = reason]

\* a save() that leaves a request alone once it is completed, cancelled or
\* rejected
mr_save_guarded(tbl, pk, obj) ==
    IF tbl[pk].status \in {"completed", "cancelled", "rejected"}
    THEN tbl
    ELSE write_row(tbl, pk, obj)

\* Model.save() of a loaded object: every column is written from memory
mr_save(tbl, pk, obj) == write_row(tbl, pk, obj)

\* Accommodation.current_allocation
current_allocation(tbl, a) ==
    {k \in DOMAIN tbl :
        tbl[k].accommodation = a /\ tbl[k].is_active /\ tbl[k].end_date = None}

\* the end of complete(), after its save(): an accommodation under
\* maintenance with no other open request becomes occupied or available
release_accommodation(accs, reqs, allocs, pk) ==
    LET a == reqs[pk].accommodation
        pending_requests ==
            \E k \in DOMAIN reqs \ {pk} :
                /\ reqs[k].accommodation = a
                /\ reqs[k].status \in {"pending", "in_progress"}
    IN IF accs[a].status = "under_maintenance" /\ ~pending_requests
       THEN IF current_allocation(allocs, a) # {}
            THEN mark_occupied(accs, a)
            ELSE mark_available(accs, a)
       ELSE accs

Procs == 1..NumProc
MrMethods == {"assign", "complete", "cancel", "reject"}

\* the view loads the request that all the concurrent calls are about (pk 1)
MrLoad(p) ==
    /\ procs[p].pc = "idle"
    /\ procs' = [procs EXCEPT ![p] = [pc |-> "loaded", method |-> "", obj |-> requests[1]]]
    /\ response' = [op |-> "load", code |-> "ok"]
    /\ UNCHANGED <<empVars, salaries, accVars, requests, mr_saves, trkVars, extVars>>

\* one of the four methods runs on the loaded object up to and including
\* its save()
MrCall(p, method) ==
    LET obj == CASE method = "assign" -> assign(procs[p].obj, 1)
                 [] method = "complete" -> complete(procs[p].obj)
                 [] method = "cancel" -> cancel(procs[p].obj)
                 [] OTHER -> reject(procs[p].obj, "reason")
    IN /\ procs[p].pc = "loaded"
       /\ requests' = mr_save(requests, 1, obj)
       /\ procs' = [procs EXCEPT ![p] =
                       [pc |-> IF method = "complete" THEN "saved" ELSE "done",
                        method |-> method, obj |-> obj]]
       /\ mr_saves' = Append(mr_saves, [proc |-> p, method |-> method])
       /\ response' = [op |-> method, code |-> "saved"]
       /\ UNCHANGED <<empVars, salaries, accVars, trkVars, extVars>>

\* complete() after its save()
MrCompleteRelease(p) ==
    /\ procs[p].pc = "saved"
    /\ accommodations' = release_accommodation(accommodations, requests, allocations, 1)
    /\ procs' = [procs EXCEPT ![p].pc = "done"]
    /\ response' = [op |-> "complete", code |-> "ok"]
    /\ UNCHANGED <<empVars, salaries, allocations, requests, mr_saves, trkVars, extVars>>

NewRequest(a) ==
    [accommodation |-> a, status |-> "pending", assigned_to |-> None,
     resolution_notes |-> "", completed_date |-> None]

\* one accommodation, under maintenance or occupied, with one or two
\* pending requests, and possibly an active allocation, open-ended or saved
\* with an end_date
InitMaint ==
    /\ IdleEmployees
    /\ IdlePayroll
    /\ accommodations \in {[a \in {1} |-> [status |-> st]] :
                              st \in {"under_maintenance", "occupied"}}
    /\ allocations \in {<<>>,
                         <<[accommodation |-> 1, is_active |-> TRUE,
                            end_date |-> None]>>,
                         <<[accommodation |-> 1, is_active |-> TRUE,
                            end_date |-> Now]>>}
    /\ requests \in {<<NewRequest(1)>>, <<NewRequest(1), NewRequest(1)>>}
    /\ procs = [p \in Procs |-> [pc |-> "idle", method |-> "", obj |-> NewRequest(1)]]
    /\ mr_saves = <<>>
    /\ IdleGeo
    /\ IdleTracking
    /\ IdleOthers
    /\ Started

NextMaint ==
    \/ \E p \in Procs : MrLoad(p)
    \/ \E p \in Procs, method \in MrMethods : MrCall(p, method)
    \/ \E p \in Procs : MrCompleteRelease(p)

SpecMaint == InitMaint /\ [][NextMaint]_vars

\* ------------------------------------------ geofence containment: SpecGeo
Min(a, b) == IF a <= b THEN a ELSE b
Max(a, b) == IF a >= b THEN a ELSE b
Abs(a) == IF a >= 0 THEN a ELSE -a

\* The haversine distance in metres, rounded up, between two points with
\* whole-degree coordinates between 0 and 3, as contains_point computes it
\* with r = 6371000: it depends on the two latitudes and on the difference
\* of the longitudes.
HaversineTable ==
    [k \in (0..3) \X (0..3) \X (0..3) |->
        CASE k = <<0, 0, 0>> -> 0
          [] k = <<0, 0, 1>> -> 111195
          [] k = <<0, 0, 2>> -> 222390
          [] k = <<0, 0, 3>> -> 333585
          [] k = <<0, 1, 0>> -> 111195
          [] k = <<0, 1, 1>> -> 157250
          [] k = <<0, 1, 2>> -> 248630
          [] k = <<0, 1, 3>> -> 351614
          [] k = <<0, 2, 0>> -> 222390
          [] k = <<0, 2, 1>> -> 248630
          [] k = <<0, 2, 2>> -> 314475
          [] k = <<0, 2, 3>> -> 400863
          [] k = <<0, 3, 0>> -> 333585
          [] k = <<0, 3, 1>> -> 351614
          [] k = <<0, 3, 2>> -> 400863
          [] k = <<0, 3, 3>> -> 471653
          [] k = <<1, 1, 0>> -> 0
          [] k = <<1, 1, 1>> -> 111178
          [] k = <<1, 1, 2>> -> 222356
          [] k = <<1, 1, 3>> -> 333534
          [] k = <<1, 2, 0>> -> 111195
          [] k = <<1, 2, 1>> -> 157226
          [] k = <<1, 2, 2>> -> 248569
          [] k = <<1, 2, 3>> -> 351517
          [] k = <<1, 3, 0>> -> 222390
          [] k = <<1, 3, 1>> -> 248607
          [] k = <<1, 3, 2>> -> 314403
          [] k = <<1, 3, 3>> -> 400736
          [] k = <<2, 2, 0>> -> 0
          [] k = <<2, 2, 1>> -> 111128
          [] k = <<2, 2, 2>> -> 222255
          [] k = <<2, 2, 3>> -> 333382
          [] k = <<2, 3, 0>> -> 111195
          [] k = <<2, 3, 1>> -> 157178
          [] k = <<2, 3, 2>> -> 248448
          [] k = <<2, 3, 3>> -> 351324
          [] k = <<3, 3, 0>> -> 0
          [] k = <<3, 3, 1>> -> 111043
          [] k = <<3, 3, 2>> -> 222086
          [] k = <<3, 3, 3>> -> 333128
          [] OTHER -> 0]

distance_m(lat1, lon1, lat2, lon2) ==
    HaversineTable[<<Min(lat1, lat2), Max(lat1, lat2), Abs(lon2 - lon1)>>]

\* the test of one polygon edge p1 -> p2 with the upper bound of the
\* longitude range left open
edge_toggles_open(point, p1, p2) ==
    /\ point[2] > Min(p1[2], p2[2])
    /\ point[2] < Max(p1[2], p2[2])
    /\ point[1] <= Max(p1[1], p2[1])
    /\ \/ p1[1] = p2[1]
       \/ IF p2[2] > p1[2]
          THEN (point[1] - p1[1]) * (p2[2] - p1[2]) <= (point[2] - p1[2]) * (p2[1] - p1[1])
          ELSE (point[1] - p1[1]) * (p2[2] - p1[2]) >= (point[2] - p1[2]) * (p2[1] - p1[1])

\* The test of one polygon edge p1 -> p2 in contains_point: whether the edge
\* flips `inside`.  A point is (latitude, longitude) = (x, y).  The two range
\* tests on y make p1y # p2y, so xinters is computed afresh; point[0] <=
\* xinters, with xinters = (y - p1y) * (p2x - p1x) / (p2y - p1y) + p1x, is
\* compared after multiplying by p2y - p1y (whole-number coordinates make
\* the float division exact whenever the two sides are equal).
edge_toggles(point, p1, p2) ==
    /\ point[2] > Min(p1[2], p2[2])
    /\ point[2] <= Max(p1[2], p2[2])
    /\ point[1] <= Max(p1[1], p2[1])
    /\ \/ p1[1] = p2[1]
       \/ IF p2[2] > p1[2]
          THEN (point[1] - p1[1]) * (p2[2] - p1[2]) <= (point[2] - p1[2]) * (p2[1] - p1[1])
          ELSE (point[1] - p1[1]) * (p2[2] - p1[2]) >= (point[2] - p1[2]) * (p2[1] - p1[1])

\* the loop of the POLYGON branch from step i on: p1 is the previous corner
\* (polygon[0] at first), p2 is polygon[i % n]
RECURSIVE ray_casting(_, _, _, _, _)
ray_casting(point, polygon, i, p1, inside) ==
    IF i > Len(polygon) THEN inside
    ELSE LET p2 == polygon[(i % Len(polygon)) + 1]
         IN ray_casting(point, polygon, i + 1, p2,
                        IF edge_toggles(point, p1, p2) THEN ~inside ELSE inside)

\* GeofenceArea.contains_point(latitude, longitude)
contains_point(fence, latitude, longitude) ==
    IF ~fence.is_active THEN FALSE
    ELSE IF fence.geofence_type = "circle"
    THEN IF fence.center_latitude = 0 \/ fence.center_longitude = 0
            \/ fence.radius = 0
         THEN FALSE     \* a null or zero centre or radius is falsy
         ELSE distance_m(latitude, longitude, fence.center_latitude,
                         fence.center_longitude) <= fence.radius
    ELSE IF fence.geofence_type = "polygon"
    THEN IF fence.coordinates = <<>> THEN FALSE
         ELSE ray_casting(<<latitude, longitude>>, fence.coordinates, 0,
                          fence.coordinates[1], FALSE)
    ELSE IF fence.geofence_type = "rectangle"
    THEN IF Len(fence.coordinates) < 2 THEN FALSE
         ELSE LET top_left == fence.coordinates[1]
                  bottom_right == fence.coordinates[2]
              IN /\ latitude >= top_left[1]
                 /\ latitude <= bottom_right[1]
                 /\ longitude >= top_left[2]
                 /\ longitude <= bottom_right[2]
    ELSE FALSE

\* a GeofenceArea row
Fence(type, active, coordinates) ==
    [geofence_type |-> type, is_active |-> active, is_deleted |-> FALSE,
     deleted_at |-> None, deleted_by |-> None,
     center_latitude |-> None, center_longitude |-> None, radius |-> None,
     coordinates |-> coordinates]

\* latitudes 0..GridMax, longitudes 0..2
Grid == (0..GridMax) \X (0..2)

\* twice the signed area of the triangle a, b, c
Orient(a, b, c) == (b[1] - a[1]) * (c[2] - a[2]) - (b[2] - a[2]) * (c[1] - a[1])

\* c lies on the closed segment a-b
OnSegment(a, b, c) ==
    /\ Orient(a, b, c) = 0
    /\ Min(a[1], b[1]) <= c[1] /\ c[1] <= Max(a[1], b[1])
    /\ Min(a[2], b[2]) <= c[2] /\ c[2] <= Max(a[2], b[2])

\* the segments a-b and c-d cross at a point inside both
CrossProperly(a, b, c, d) ==
    /\ Orient(a, b, c) * Orient(a, b, d) < 0
    /\ Orient(c, d, a) * Orient(c, d, b) < 0

\* the closed segments a-b and c-d have a point in common
Touch(a, b, c, d) ==
    \/ CrossProperly(a, b, c, d)
    \/ OnSegment(a, b, c) \/ OnSegment(a, b, d)
    \/ OnSegment(c, d, a) \/ OnSegment(c, d, b)

\* corner i of a polygon, and the one after it
Corner(poly, i) == poly[((i - 1) % Len(poly)) + 1]

\* A simple polygon: no corner is straight or a spike, and two edges meet
\* only when they are neighbours, at their common corner.
IsSimple(poly) ==
    /\ \A i \in DOMAIN poly :
          Orient(Corner(poly, i), Corner(poly, i + 1), Corner(poly, i + 2)) # 0
    /\ \A i, j \in DOMAIN poly :
          (i < j /\ j # i + 1 /\ ~(i = 1 /\ j = Len(poly)))
              => ~Touch(Corner(poly, i), Corner(poly, i + 1),
                        Corner(poly, j), Corner(poly, j + 1))

\* the simple polygons with three or four corners on the grid, in every
\* order of their corners
SimplePolygons ==
    {poly \in [1..3 -> Grid] \cup [1..4 -> Grid] : IsSimple(poly)}

\* the geofences contains_point is tried on: every simple polygon, active,
\* the triangles also inactive, polygons and rectangles without enough
\* coordinates, and every rectangle given by two corners
GeofenceInputs ==
    {Fence("polygon", TRUE, poly) : poly \in SimplePolygons}
    \cup {Fence("polygon", FALSE, poly) : poly \in {q \in SimplePolygons : Len(q) = 3}}
    \cup {Fence("polygon", b, <<>>) : b \in BOOLEAN}
    \cup {Fence("rectangle", b, <<c[1], c[2]>>) : b \in BOOLEAN, c \in Grid \X Grid}
    \cup {Fence("rectangle", TRUE, <<c>>) : c \in Grid}

\* contains_point is called for a point of the grid
ContainsPointCall ==
    /\ geo.result = "none"
    /\ \E point \in Grid :
          geo' = [geo EXCEPT !.point = point,
                             !.result = IF contains_point(geo.fence, point[1], point[2])
                                        THEN "True" ELSE "False"]
    /\ response' = [op |-> "contains_point", code |-> "ok"]
    /\ UNCHANGED <<empVars, salaries, accVars, mntVars, geofences, tracking,
                   tracking_log, extVars>>

InitGeo ==
    /\ IdleEmployees
    /\ IdlePayroll
    /\ IdleAccommodation
    /\ IdleMaintenance
    /\ geo \in {[fence |-> f, point |-> <<0, 0>>, result |-> "none"] : f \in GeofenceInputs}
    /\ IdleTracking
    /\ IdleOthers
    /\ Started

NextGeo == ContainsPointCall

SpecGeo == InitGeo /\ [][NextGeo]_vars

\* ------------------------------------------------- tracking: SpecTrack
\* a circle GeofenceArea row
Circle(latitude, longitude, radius) ==
    [Fence("circle", TRUE, <<>>) EXCEPT !.center_latitude = latitude,
                                        !.center_longitude = longitude,
                                        !.radius = radius]

GeofenceIds == DOMAIN geofences

\* the positions a device reports
Positions == (1..3) \X (1..3)

\* GeofenceArea.objects.filter(is_active=True)
active_geofences(tbl) == {g \in DOMAIN tbl : tbl[g].is_active}

\* the loop over the geofences in update_location: the first one, in the
\* order of Meta.ordering, that contains the point
find_geofence(tbl, latitude, longitude) ==
    LET hits == {g \in active_geofences(tbl) :
                    contains_point(tbl[g], latitude, longitude)}
    IN IF hits = {} THEN None
       ELSE CHOOSE g \in hits : \A h \in hits : g <= h

LogRow(event_type, geofence) == [event_type |-> event_type, geofence |-> geofence]

\* update_location with the exit of the old geofence logged only when no
\* geofence is entered
geofence_events_elif(old, new) ==
    IF new = old THEN <<>>
    ELSE IF new # None THEN <<LogRow("geofence_enter", new)>>
    ELSE <<LogRow("geofence_exit", old)>>

\* the TrackingLog rows update_location creates when the geofence changes
\* from old to new: the entry first, then the exit
geofence_events(old, new) ==
    IF new = old THEN <<>>
    ELSE (IF new # None THEN <<LogRow("geofence_enter", new)>> ELSE <<>>)
         \o (IF old # None THEN <<LogRow("geofence_exit", old)>> ELSE <<>>)

\* EmployeeTracking.update_location(latitude, longitude); no Store exists
UpdateLocation(latitude, longitude) ==
    /\ Len(tracking_log) < MaxLog
    /\ LET current_geofence == find_geofence(geofences, latitude, longitude)
           events == geofence_events(tracking.current_geofence, current_geofence)
       IN /\ tracking' = [tracking EXCEPT !.last_latitude = latitude,
                                          !.last_longitude = longitude,
                                          !.last_update = Now,
                                          !.current_geofence = current_geofence,
                                          !.current_store = None]
          /\ tracking_log' = tracking_log \o events
                                \o <<LogRow("location_update", current_geofence)>>
          /\ response' = [op |-> "update_location",
                          code |-> IF current_geofence = tracking.current_geofence
                                   THEN "same"
                                   ELSE IF current_geofence # None THEN "enter"
                                   ELSE "exit"]
    /\ UNCHANGED <<empVars, salaries, accVars, mntVars, geo, geofences, extVars>>

UpdateLocationCall == \E point \in Positions : UpdateLocation(point[1], point[2])

\* GeofenceArea.soft_delete(user)
GeofenceSoftDelete ==
    \E g \in GeofenceIds, user \in {None, StaffUser} :
        /\ geofences' = [geofences EXCEPT ![g] = soft_delete(geofences[g], user, Now)]
        /\ response' = [op |-> "geofence_soft_delete", code |-> "ok"]
        /\ UNCHANGED <<empVars, salaries, accVars, mntVars, geo, tracking, tracking_log, extVars>>

\* GeofenceArea.restore()
GeofenceRestore ==
    \E g \in GeofenceIds :
        /\ geofences[g].is_deleted
        /\ geofences' = [geofences EXCEPT ![g] = restore(geofences[g])]
        /\ response' = [op |-> "geofence_restore", code |-> "ok"]
        /\ UNCHANGED <<empVars, salaries, accVars, mntVars, geo, tracking, tracking_log, extVars>>

\* three overlapping geofences, one of each type, named in this order
GeofenceTable ==
    <<Circle(2, 2, 120000),
      Fence("rectangle", TRUE, <<<<1, 1>>, <<2, 2>>>>),
      Fence("polygon", TRUE, <<<<1, 3>>, <<3, 3>>, <<3, 1>>>>)>>

InitTrack ==
    /\ IdleEmployees
    /\ IdlePayroll
    /\ IdleAccommodation
    /\ IdleMaintenance
    /\ IdleGeo
    /\ IdleOthers
    /\ geofences = GeofenceTable
    /\ tracking = [current_geofence |-> None, current_store |-> None,
                   last_latitude |-> None, last_longitude |-> None,
                   last_update |-> None]
    /\ tracking_log = <<>>
    /\ Started

NextTrack ==
    \/ UpdateLocationCall
    \/ GeofenceSoftDelete
    \/ GeofenceRestore

SpecTrack == InitTrack /\ [][NextTrack]_vars

\* ------------------------------------ employee record views: SpecPerm
\* The permission check that employee_documents, employee_contacts,
\* employee_education and employee_experience share with employee_detail,
\* and the answer of the view: 404, 500 (request.user.employee_profile
\* raises RelatedObjectDoesNotExist for a user without a profile, before
\* hasattr is asked), 403 (PermissionDenied) or 200 with the records.
employee_documents(u, id) ==
    IF get_employee_or_404(id) = None THEN "404"
    ELSE IF is_staff(u) THEN "200"
    ELSE IF ~has_profile(u) THEN "500"
    ELSE IF employee_profile(u) = id THEN "200"
    ELSE IF employees[id].reporting_manager # employee_profile(u) THEN "403"
    ELSE "200"

employee_contacts(u, id) == employee_documents(u, id)

employee_education(u, id) == employee_documents(u, id)

employee_experience(u, id) == employee_documents(u, id)

EmployeeDocumentsView ==
    /\ \E u \in Users, id \in RequestIds :
          response' = [op |-> "employee_documents", code |-> employee_documents(u, id),
                       user |-> u, id |-> id]
    /\ UNCHANGED <<employees, user_active>>
    /\ UnchangedPayroll

EmployeeContactsView ==
    /\ \E u \in Users, id \in RequestIds :
          response' = [op |-> "employee_contacts", code |-> employee_contacts(u, id),
                       user |-> u, id |-> id]
    /\ UNCHANGED <<employees, user_active>>
    /\ UnchangedPayroll

EmployeeEducationView ==
    /\ \E u \in Users, id \in RequestIds :
          response' = [op |-> "employee_education", code |-> employee_education(u, id),
                       user |-> u, id |-> id]
    /\ UNCHANGED <<employees, user_active>>
    /\ UnchangedPayroll

EmployeeExperienceView ==
    /\ \E u \in Users, id \in RequestIds :
          response' = [op |-> "employee_experience", code |-> employee_experience(u, id),
                       user |-> u, id |-> id]
    /\ UNCHANGED <<employees, user_active>>
    /\ UnchangedPayroll

InitPerm == Init

NextPerm ==
    \/ EmployeeDetailView
    \/ EmployeeDocumentsView
    \/ EmployeeContactsView
    \/ EmployeeEducationView
    \/ EmployeeExperienceView
    \/ EmployeeDeleteView
    \/ EmployeeRestore

SpecPerm == InitPerm /\ [][NextPerm]_vars

\* ------------------------------------------------ tax estimate: SpecTax
\* Amounts of income are whole rupees; a tax is counted in paise (1/100
\* rupee), so that 5 % of a rupee is 5; Decimal arithmetic is exact here.

\* the tax of the slab with the base amount left out
slab_tax_no_base(tax_regime, taxable) ==
    IF tax_regime = "old"
    THEN IF taxable <= 250000 THEN 0
         ELSE IF taxable <= 500000 THEN (taxable - 250000) * 5
         ELSE IF taxable <= 1000000 THEN (taxable - 500000) * 20
         ELSE (taxable - 1000000) * 30
    ELSE IF taxable <= 300000 THEN 0
         ELSE IF taxable <= 600000 THEN (taxable - 300000) * 5
         ELSE IF taxable <= 900000 THEN (taxable - 600000) * 10
         ELSE IF taxable <= 1200000 THEN (taxable - 900000) * 15
         ELSE IF taxable <= 1500000 THEN (taxable - 1200000) * 20
         ELSE (taxable - 1500000) * 30

\* calculate_tax: the tax before cess, in paise, by regime and slab
slab_tax(tax_regime, taxable) ==
    IF tax_regime = "old"
    THEN IF taxable <= 250000 THEN 0
         ELSE IF taxable <= 500000 THEN (taxable - 250000) * 5
         ELSE IF taxable <= 1000000 THEN 1250000 + (taxable - 500000) * 20
         ELSE 11250000 + (taxable - 1000000) * 30
    ELSE IF taxable <= 300000 THEN 0
         ELSE IF taxable <= 600000 THEN (taxable - 300000) * 5
         ELSE IF taxable <= 900000 THEN 1500000 + (taxable - 600000) * 10
         ELSE IF taxable <= 1200000 THEN 4500000 + (taxable - 900000) * 15
         ELSE IF taxable <= 1500000 THEN 9000000 + (taxable - 1200000) * 20
         ELSE 15000000 + (taxable - 1500000) * 30

\* tax + tax * Decimal('0.04'), in 1/25 paisa: 4 % of a paisa is one
with_cess(tax) == tax * 25 + tax

\* sum(Decimal(str(value)) for value in self.tax_deductions.values())
RECURSIVE sum_values(_)
sum_values(values) ==
    IF values = <<>> THEN 0 ELSE Head(values) + sum_values(Tail(values))

\* the months left of the financial year, at least one
remaining_months(current_year, current_month, fy_start_year) ==
    Max(IF current_year = fy_start_year THEN 12 - current_month + 3
        ELSE 3 - current_month,
        1)

\* TaxDeduction.calculate_tax at the given date; total_tax, tax_paid_to_date
\* and remaining_tax are in 1/25 paisa, monthly_deduction is the
\* quotient remaining_tax / remaining_months as its two parts
calculate_tax(obj, current_year, current_month) ==
    LET taxable == Max(obj.gross_income - sum_values(obj.tax_deductions), 0)
        tax == with_cess(slab_tax(obj.tax_regime, taxable))
        remaining == Max(tax - obj.tax_paid_to_date, 0)
    IN [obj EXCEPT !.taxable_income = taxable,
                   !.total_tax = tax,
                   !.remaining_tax = remaining,
                   !.monthly_deduction =
                       <<remaining,
                         remaining_months(current_year, current_month,
                                          obj.fy_start_year)>>]

\* the ends of the slabs of both regimes, and no income
SlabEnds == {0, 250000, 300000, 500000, 600000, 900000, 1000000, 1200000, 1500000}

\* incomes at most TaxDelta rupees away from the end of a slab
Incomes == {i \in {b + d : b \in SlabEnds, d \in (-TaxDelta)..TaxDelta} : i >= 0}

\* a TaxDeduction before its first calculation
TaxObjects ==
    [tax_regime : {"old", "new"}, gross_income : Incomes,
     tax_deductions : {<<>>, <<1>>, <<150000, 100000>>, <<2000000>>},
     taxable_income : {0}, total_tax : {0}, tax_paid_to_date : {0, 2500000},
     remaining_tax : {0}, monthly_deduction : {<<0, 1>>},
     fy_start_year : {2023}, calculated : {FALSE}]

CalculateTax ==
    /\ ~tax_rec.calculated
    /\ \E date \in {<<2023, 4>>, <<2023, 12>>, <<2024, 1>>, <<2024, 3>>} :
          tax_rec' = [calculate_tax(tax_rec, date[1], date[2]) EXCEPT !.calculated = TRUE]
    /\ response' = [op |-> "calculate_tax", code |-> "ok"]
    /\ UNCHANGED <<oldVars, exceptTax>>

InitTax ==
    /\ IdleEmployees
    /\ IdlePayroll
    /\ IdleAccommodation
    /\ IdleMaintenance
    /\ IdleGeo
    /\ IdleTracking
    /\ IdleWizard
    /\ IdleLeave
    /\ IdleSavers
    /\ tax_rec \in TaxObjects
    /\ Started

NextTax == CalculateTax

SpecTax == InitTax /\ [][NextTax]_vars

\* ------------------------------------------- employee creation wizard
\* employee ids that differ in case only; usernames are made from them
EmployeeCodes == {<<"E", 1>>, <<"e", 1>>}
FirstNames == {"Asha", "Bala"}
Emails == 1..NumMail
JoinDates == {1}

SessionKeys == {"employee_basic_data", "employee_contact_data",
                "employee_employment_data", "has_profile_picture"}

\* str.lower() of an employee id
str_lower(employee_id) == <<"e", employee_id[2]>>

\* first_name.lower()[0]
first_letter(first_name) == IF first_name = "Asha" THEN "a" ELSE "b"

\* date.isoformat() and datetime.date.fromisoformat()
isoformat(d) == <<"iso", d>>
fromisoformat(str) == IF str[1] = "iso" THEN str[2] ELSE None

\* dict.get(key) of a session dictionary; {} is the empty function
dict_get(d, key) == IF key \in DOMAIN d THEN d[key] ELSE None

\* request.session.get(key, {}) and request.session[key] = value
session_get(key) == IF key \in DOMAIN session THEN session[key] ELSE <<>>

session_set(key, value) ==
    [k \in DOMAIN session \cup {key} |->
        IF k = key THEN value ELSE session[k]]

\* for key in [...]: if key in request.session: del request.session[key]
clear_session_data(sess) == [k \in DOMAIN sess \ SessionKeys |-> sess[k]]

\* the session is written back at the end of a request that modified it;
\* the JSON serializer cannot encode an uploaded file or a QuerySet
can_serialize(unencodable) == serializer = "pickle" \/ ~unencodable

\* the username of the new account: the lowered employee id, with the first
\* letter of the first name appended when that username is taken
new_username(basic_data) ==
    LET username == <<str_lower(basic_data.employee_id), "">>
    IN  IF username \in auth_user
        THEN <<username[1], first_letter(basic_data.first_name)>>
        ELSE username

\* a variant that forgets the wizard's session data as soon as the user
\* account exists
create_employee_clear_early ==
    LET basic_data == session_get("employee_basic_data")
        contact_data == session_get("employee_contact_data")
        employment_data == session_get("employee_employment_data")
        date_joined == IF "date_joined" \in DOMAIN employment_data
                       THEN fromisoformat(employment_data.date_joined)
                       ELSE None
        same == [exception |-> "", session |-> session,
                 auth_user |-> auth_user, new_employees |-> new_employees]
    IN  IF "employee_id" \notin DOMAIN basic_data
        THEN [same EXCEPT !.exception = "AttributeError"]
        ELSE
        LET username == new_username(basic_data)
            employee == [employee_id |-> basic_data.employee_id,
                         official_email |->
                             dict_get(contact_data, "official_email"),
                         date_joined |-> date_joined,
                         user |-> username]
        IN  IF username \in auth_user
            THEN [same EXCEPT !.exception = "IntegrityError"]
            ELSE IF \/ employee.official_email = None
                    \/ employee.date_joined = None
                    \/ \E e \in new_employees :
                           \/ e.employee_id = employee.employee_id
                           \/ e.official_email = employee.official_email
            THEN [same EXCEPT !.exception = "IntegrityError",
                              !.session = clear_session_data(session),
                              !.auth_user = auth_user \cup {username}]
            ELSE [same EXCEPT !.session = clear_session_data(session),
                              !.auth_user = auth_user \cup {username},
                              !.new_employees =
                                  new_employees \cup {employee}]

\* the try block of step 4: the exception it ends with ("" when it ran
\* to the redirect) and what is stored afterwards.  Every statement is
\* committed on its own, so a User created before a failing
\* employee.save() stays.
create_employee ==
    LET basic_data == session_get("employee_basic_data")
        contact_data == session_get("employee_contact_data")
        employment_data == session_get("employee_employment_data")
        date_joined == IF "date_joined" \in DOMAIN employment_data
                       THEN fromisoformat(employment_data.date_joined)
                       ELSE None
        same == [exception |-> "", session |-> session,
                 auth_user |-> auth_user, new_employees |-> new_employees]
    IN  IF "employee_id" \notin DOMAIN basic_data
        THEN \* None.lower()
             [same EXCEPT !.exception = "AttributeError"]
        ELSE
        LET username == new_username(basic_data)
            employee == [employee_id |-> basic_data.employee_id,
                         official_email |->
                             dict_get(contact_data, "official_email"),
                         date_joined |-> date_joined,
                         user |-> username]
        IN  IF username \in auth_user
            THEN \* create_user: the username is unique
                 [same EXCEPT !.exception = "IntegrityError"]
            ELSE IF \/ employee.official_email = None
                    \/ employee.date_joined = None
                    \/ \E e \in new_employees :
                           \/ e.employee_id = employee.employee_id
                           \/ e.official_email = employee.official_email
            THEN \* employee.save(): a required column is null or a
                 \* unique column repeats
                 [same EXCEPT !.exception = "IntegrityError",
                              !.auth_user = auth_user \cup {username}]
            ELSE [same EXCEPT !.session = clear_session_data(session),
                              !.auth_user = auth_user \cup {username},
                              !.new_employees =
                                  new_employees \cup {employee}]

\* the answer of employee_create
CreateResponse(step, code, message) ==
    [op |-> "employee_create", step |-> step, code |-> code,
     message |-> message]

\* POST step=1: EmployeeBasicForm; a ModelForm rejects an employee id that
\* an employee already has
EmployeeCreateStep1(employee_id, first_name, picture) ==
    LET valid == \A e \in new_employees : e.employee_id # employee_id
        basic_data == [employee_id |-> employee_id,
                       first_name |-> first_name,
                       date_of_birth |-> isoformat(1)]
        stored == IF picture
                  THEN [k \in DOMAIN session \cup
                                {"employee_basic_data", "has_profile_picture"}
                        |-> IF k = "employee_basic_data" THEN basic_data
                            ELSE IF k = "has_profile_picture" THEN TRUE
                            ELSE session[k]]
                  ELSE session_set("employee_basic_data", basic_data)
    IN  /\ IF ~valid
           THEN /\ response' = CreateResponse(1, "render", <<"", "">>)
                /\ UNCHANGED session
           ELSE IF can_serialize(picture)
           THEN /\ response' = CreateResponse(1, "redirect", <<"", "">>)
                /\ session' = stored
           ELSE /\ response' = CreateResponse(1, "500", <<"", "">>)
                /\ UNCHANGED session
        /\ UNCHANGED <<auth_user, new_employees, serializer>>
        /\ UNCHANGED <<oldVars, exceptWiz>>

\* POST step=2: EmployeeContactForm; official_email is unique
EmployeeCreateStep2(official_email) ==
    LET valid == \A e \in new_employees : e.official_email # official_email
    IN  /\ IF valid
           THEN /\ response' = CreateResponse(2, "redirect", <<"", "">>)
                /\ session' = session_set("employee_contact_data",
                                  [official_email |-> official_email])
           ELSE /\ response' = CreateResponse(2, "render", <<"", "">>)
                /\ UNCHANGED session
        /\ UNCHANGED <<auth_user, new_employees, serializer>>
        /\ UNCHANGED <<oldVars, exceptWiz>>

\* POST step=3: EmployeeEmploymentForm; its cleaned data holds the skills
\* QuerySet
EmployeeCreateStep3(form_valid, date_joined) ==
    /\ IF ~form_valid
       THEN /\ response' = CreateResponse(3, "render", <<"", "">>)
            /\ UNCHANGED session
       ELSE IF can_serialize(TRUE)
       THEN /\ response' = CreateResponse(3, "redirect", <<"", "">>)
            /\ session' = session_set("employee_employment_data",
                              [date_joined |-> isoformat(date_joined)])
       ELSE /\ response' = CreateResponse(3, "500", <<"", "">>)
            /\ UNCHANGED session
    /\ UNCHANGED <<auth_user, new_employees, serializer>>
    /\ UNCHANGED <<oldVars, exceptWiz>>

\* POST step=4: EmployeeFinancialForm, then the try block; an exception
\* is reported and the form page rendered
EmployeeCreateStep4(form_valid) ==
    /\ IF ~form_valid
       THEN /\ response' = CreateResponse(4, "render", <<"", "">>)
            /\ UNCHANGED <<session, auth_user, new_employees>>
       ELSE LET done == create_employee
            IN  /\ session' = done.session
                /\ auth_user' = done.auth_user
                /\ new_employees' = done.new_employees
                /\ response' =
                       IF done.exception = ""
                       THEN CreateResponse(4, "redirect",
                                <<"created successfully", "">>)
                       ELSE CreateResponse(4, "render",
                                <<"Error creating employee", done.exception>>)
    /\ UNCHANGED serializer
    /\ UNCHANGED <<oldVars, exceptWiz>>

InitCreate ==
    /\ IdleEmployees
    /\ IdlePayroll
    /\ IdleAccommodation
    /\ IdleMaintenance
    /\ IdleGeo
    /\ IdleTracking
    /\ IdleTax
    /\ IdleLeave
    /\ IdleSavers
    /\ session = <<>>
    /\ auth_user = {}
    /\ new_employees = {}
    /\ serializer \in {"json", "pickle"}
    /\ Started

NextCreate ==
    \/ \E employee_id \in EmployeeCodes, first_name \in FirstNames,
          picture \in BOOLEAN :
           EmployeeCreateStep1(employee_id, first_name, picture)
    \/ \E official_email \in Emails : EmployeeCreateStep2(official_email)
    \/ \E form_valid \in BOOLEAN, date_joined \in JoinDates :
           EmployeeCreateStep3(form_valid, date_joined)
    \/ \E form_valid \in BOOLEAN : EmployeeCreateStep4(form_valid)

SpecCreate == InitCreate /\ [][NextCreate]_vars

\* ------------------------------------------------ leave and attendance
Dates == 1..MaxDate

\* date.weekday(): Monday is 0
weekday(d) == (d - 1) % 7

\* Holiday.objects.filter(date=current_date).exists()
is_holiday(d) == d \in holidays

\* Attendance.objects.get_or_create(employee=e, date=d,
\* defaults={'status': ON_LEAVE}) appending a row, as if none was found
attendance_create_always(table, e, d) ==
    Append(table, [employee |-> e, date |-> d, status |-> "on_leave"])

\* Attendance.objects.get_or_create(employee=e, date=d,
\* defaults={'status': ON_LEAVE}) and, for a row that was there, status =
\* ON_LEAVE and save()
attendance_on_leave(table, e, d) ==
    LET found == {i \in DOMAIN table :
                     table[i].employee = e /\ table[i].date = d}
    IN  IF found = {}
        THEN Append(table, [employee |-> e, date |-> d, status |-> "on_leave"])
        ELSE [i \in DOMAIN table |->
                 IF i \in found THEN [table[i] EXCEPT !.status = "on_leave"]
                 ELSE table[i]]

\* Leave.approve up to the loop of _update_attendance_records
LeaveApprove ==
    /\ leave_loop.pc = "idle"
    /\ leave' = [leave EXCEPT !.status = "approved"]
    /\ leave_loop' = [pc |-> "loop", current_date |-> leave.start_date]
    /\ response' = [op |-> "leave_approve", code |-> "running"]
    /\ UNCHANGED <<attendance, holidays>>
    /\ UNCHANGED <<oldVars, exceptAtt>>

\* one turn of the while loop of _update_attendance_records, or its end:
\* the condition fails, or the date after date.max is asked for
LeaveApproveLoop ==
    /\ leave_loop.pc = "loop"
    /\ LET current_date == leave_loop.current_date
           is_weekend == weekday(current_date) >= 5
       IN  IF ~(current_date <= leave.end_date)
           THEN /\ leave_loop' = [leave_loop EXCEPT !.pc = "idle"]
                /\ response' = [op |-> "leave_approve", code |-> "ok"]
                /\ UNCHANGED attendance
           ELSE /\ attendance' =
                       IF ~is_weekend /\ ~is_holiday(current_date)
                       THEN attendance_on_leave(attendance, leave.employee,
                                                current_date)
                       ELSE attendance
                /\ IF current_date = MaxDate
                   THEN /\ leave_loop' = [leave_loop EXCEPT !.pc = "idle"]
                        /\ response' = [op |-> "leave_approve",
                                        code |-> "OverflowError"]
                   ELSE /\ leave_loop' = [leave_loop EXCEPT
                                             !.current_date = current_date + 1]
                        /\ UNCHANGED response
    /\ UNCHANGED <<leave, holidays>>
    /\ UNCHANGED <<oldVars, exceptAtt>>

\* Leave.cancel: the status is set and saved first, the test of the status
\* comes after
LeaveCancel ==
    /\ leave_loop.pc = "idle"
    /\ LET saved == [leave EXCEPT !.status = "cancelled"]
       IN  /\ leave' = saved
           /\ attendance' =
                  IF saved.status = "approved"
                  THEN [i \in DOMAIN attendance |->
                           IF /\ attendance[i].employee = saved.employee
                              /\ attendance[i].date >= saved.start_date
                              /\ attendance[i].date <= saved.end_date
                              /\ attendance[i].status = "on_leave"
                           THEN [attendance[i] EXCEPT !.status = "absent"]
                           ELSE attendance[i]]
                  ELSE attendance
    /\ response' = [op |-> "leave_cancel", code |-> "ok"]
    /\ UNCHANGED <<holidays, leave_loop>>
    /\ UNCHANGED <<oldVars, exceptAtt>>

\* Attendance tables before the leave: at most one row for an employee
\* and date
AttendanceFixtures ==
    {<<>>,
     <<[employee |-> 1, date |-> 2, status |-> "present"],
       [employee |-> 2, date |-> 2, status |-> "present"],
       [employee |-> 1, date |-> 6, status |-> "weekend"],
       [employee |-> 1, date |-> 3, status |-> "on_leave"]>>}

InitLeave ==
    /\ IdleEmployees
    /\ IdlePayroll
    /\ IdleAccommodation
    /\ IdleMaintenance
    /\ IdleGeo
    /\ IdleTracking
    /\ IdleTax
    /\ IdleWizard
    /\ IdleSavers
    /\ \E start_date \in Dates, end_date \in Dates :
           leave = [employee |-> 1, status |-> "pending",
                    start_date |-> start_date, end_date |-> end_date]
    /\ attendance \in AttendanceFixtures
    /\ holidays \in {{}, {3}, {4, 6}}
    /\ leave_loop = [pc |-> "idle", current_date |-> None]
    /\ Started

NextLeave ==
    \/ LeaveApprove
    \/ LeaveApproveLoop
    \/ LeaveCancel

\* a call that entered the loop goes on executing it
SpecLeave == InitLeave /\ [][NextLeave]_vars /\ WF_vars(LeaveApproveLoop)

\* ----------------------------------- Salary.save, concurrently: SpecSavers
\* Each request saves a new Salary (pk is None until the insert).  The
\* update of the other current rows and the insert are two statements,
\* each committed on its own, and the requests take turns between them.

\* a request builds its Salary object
SaverBegin(p, row) ==
    /\ savers[p].pc = "idle"
    /\ savers' = [savers EXCEPT ![p] = [pc |-> "built", obj |-> row]]
    /\ response' = [op |-> "salary_new", code |-> "ok"]
    /\ UNCHANGED <<oldVars, exceptSavers>>

\* Salary.save, first statement: the update that unsets the other current
\* rows of the employee (skipped when the object is not current)
SaverUnset(p) ==
    /\ savers[p].pc = "built"
    /\ salaries' = IF savers[p].obj.is_current
                   THEN unset_other_current(salaries, None,
                                            savers[p].obj.employee)
                   ELSE salaries
    /\ savers' = [savers EXCEPT ![p].pc = "unset"]
    /\ response' = [op |-> "salary_save", code |-> "unset"]
    /\ UNCHANGED <<empVars, accVars, mntVars, trkVars, exceptSavers>>

\* Salary.save, second statement: super().save() inserts the row
SaverWrite(p) ==
    /\ savers[p].pc = "unset"
    /\ salaries' = write_row(salaries, next_pk(salaries), savers[p].obj)
    /\ savers' = [savers EXCEPT ![p].pc = "done"]
    /\ response' = [op |-> "salary_save", code |-> "ok"]
    /\ UNCHANGED <<empVars, accVars, mntVars, trkVars, exceptSavers>>

\* the Salary table holds nothing or one current salary of employee 1
InitSavers ==
    /\ IdleEmployees
    /\ salaries \in {<<>>,
                     <<[employee |-> 1, is_current |-> TRUE,
                        effective_from |-> 1, net_salary |-> 10]>>}
    /\ payroll = NewPayroll
    /\ salary_slips = <<>>
    /\ IdleAccommodation
    /\ IdleMaintenance
    /\ IdleGeo
    /\ IdleTracking
    /\ IdleTax
    /\ IdleWizard
    /\ IdleLeave
    /\ savers = [p \in Procs |->
                    [pc |-> "idle",
                     obj |-> [employee |-> 1, is_current |-> FALSE,
                              effective_from |-> 1, net_salary |-> 10]]]
    /\ Started

NextSavers ==
    \/ \E p \in Procs, row \in SalaryObjects : SaverBegin(p, row)
    \/ \E p \in Procs : SaverUnset(p)
    \/ \E p \in Procs : SaverWrite(p)

SpecSavers == InitSavers /\ [][NextSavers]_vars

\* ------------------------------------------------------------- claims

\* C3: there is at most one SalarySlip for each (payroll, employee) pair,
\* also after a process_payroll() call that failed part-way and was retried
\* from draft (all slips here belong to the one payroll).
C3_OneSlipPerEmployee ==
    \A i, j \in DOMAIN salary_slips :
        salary_slips[i].employee = salary_slips[j].employee => i = j

\* C5: deletion is soft.  No Employee row is ever removed; after
\* employee_delete (POST) or the bulk action 'delete' every employee it
\* acted on has is_deleted = True, deleted_at and deleted_by filled and an
\* inactive linked user; and over any sequence of soft_delete() and
\* restore() calls is_deleted is True exactly when deleted_at is not null.
C5_SoftDelete ==
    /\ DOMAIN employees = EmpIds
    /\ \A e \in DOMAIN employees :
          employees[e].is_deleted <=> employees[e].deleted_at # None
    /\ (response.op \in {"employee_delete", "employee_bulk_action"}
            /\ response.code = "deleted")
       => \A e \in response.ids :
             /\ e \in DOMAIN employees
             /\ employees[e].is_deleted
             /\ employees[e].deleted_at # None
             /\ employees[e].deleted_by # None
             /\ ~user_active[e]

\* C5 witness: the bulk action has just deleted two employees at once, and
\* their rows are still there
C5_Witness ==
    /\ response.op = "employee_bulk_action"
    /\ response.code = "deleted"
    /\ Cardinality(response.ids) >= 2
    /\ \A e \in response.ids :
          e \in DOMAIN employees /\ employees[e].is_deleted /\ ~user_active[e]

\* the soft-deleted employees
deleted_employees == {e \in DOMAIN employees : employees[e].is_deleted}

\* C6 (views): a soft-deleted employee is in no result of employee_list,
\* employee_search or export_employees, whoever asks with whatever filter,
\* and employee_detail answers 404 for it.
C6_HiddenFromViews ==
    \A e \in deleted_employees, u \in Users :
        /\ \A st \in StatusFilters :
              /\ e \notin employee_list(u, st)
              /\ e \notin export_employees(u, st)
        /\ \A q \in Queries : e \notin employee_search(u, q)
        /\ employee_detail(u, e) = "404"

\* C6 (payroll): the slips a process_payroll() call adds are for employees
\* that are not soft-deleted.
C6_NoSlipForDeleted ==
    \A i \in DOMAIN salary_slips' :
        i \notin DOMAIN salary_slips
            => salary_slips'[i].employee \notin deleted_employees

\* C6: a soft-deleted employee is hidden from the employee views and gets
\* no salary slip from process_payroll().
C6_DeletedIsHidden == [](C6_HiddenFromViews) /\ [][C6_NoSlipForDeleted]_vars

\* C6 witness: a payroll run has completed and stored slips while an
\* employee with a current salary was soft-deleted, and that employee has
\* no slip
C6_Witness ==
    /\ response.op = "process_payroll"
    /\ response.code = "True"
    /\ salary_slips # <<>>
    /\ \E e \in deleted_employees :
          /\ employees[e].status = "active"
          /\ employees[e].date_joined <= payroll.end_date
          /\ current_salaries(e, payroll.end_date) # {}
          /\ \A i \in DOMAIN salary_slips : salary_slips[i].employee # e

\* C1: after any sequence of Salary.save() calls, one after the other, every
\* employee has at most one Salary with is_current = True.
C1_OneCurrentSalary ==
    \A e \in EmpIds :
        Cardinality({pk \in DOMAIN salaries :
                        salaries[pk].employee = e /\ salaries[pk].is_current}) <= 1

\* C1 witness: a save with is_current = True has just unset another current
\* salary of the same employee
C1_Witness ==
    /\ response.op = "salary_save"
    /\ response.code = "unset"
    /\ \E e \in EmpIds :
          /\ \E pk \in DOMAIN salaries :
                salaries[pk].employee = e /\ salaries[pk].is_current
          /\ \E pk \in DOMAIN salaries :
                salaries[pk].employee = e /\ ~salaries[pk].is_current

\* C2: after any sequence of allocation creations and end_allocation()
\* calls every accommodation has at most one allocation with is_active = True.
C2_OneActiveAllocation ==
    \A a \in AccIds : Cardinality(active_allocations(allocations, a)) <= 1

\* the status each method is documented to give a request
C4_StatusOf(method) ==
    CASE method = "assign" -> "in_progress"
      [] method = "complete" -> "completed"
      [] method = "cancel" -> "cancelled"
      [] OTHER -> "rejected"

\* C4: maintenance transitions have no guard against conflicting
\* transitions.  When assign(), complete(), cancel() or reject() run at the
\* same time on separately loaded copies of one request, no call ends in an
\* error and the stored status is the one of the call that saved last.
C4_LastSaveWins ==
    /\ \A p \in Procs : procs[p].pc \in {"idle", "loaded", "saved", "done"}
    /\ mr_saves # <<>>
          => requests[1].status = C4_StatusOf(mr_saves[Len(mr_saves)].method)

\* C4 witness: both calls are done, the copies were both loaded before the
\* first save, and the last save moved a request that was already cancelled
\* back to in_progress
C4_Witness ==
    /\ \A p \in Procs : procs[p].pc = "done"
    /\ Len(mr_saves) = NumProc
    /\ mr_saves[1].method = "cancel"
    /\ mr_saves[Len(mr_saves)].method = "assign"
    /\ requests[1].status = "in_progress"
    /\ \E p \in Procs : procs[p].obj.status = "cancelled" /\ procs[p].obj.assigned_to = None

\* a point outside the grid, in a direction no grid point lies in
C9_FarPoint(point) == <<point[1] + GridMax + 1, point[2] + 1>>

\* a point on the boundary of a polygon
C9_OnBoundary(point, poly) ==
    \E i \in DOMAIN poly : OnSegment(Corner(poly, i), Corner(poly, i + 1), point)

\* The number of edges that the segment from the point to C9_FarPoint
\* crosses is odd: the point is inside (the segment passes through no corner).
C9_CrossesOdd(point, poly) ==
    Cardinality({i \in DOMAIN poly :
                    CrossProperly(point, C9_FarPoint(point),
                                  Corner(poly, i), Corner(poly, i + 1))}) % 2 = 1

\* C9: for an active POLYGON geofence with a simple polygon, contains_point
\* is True for every point strictly inside the polygon and False for every
\* point strictly outside it, and it is False whenever the geofence is
\* inactive or has no coordinates.
C9_PolygonContainment ==
    (geo # <<>> /\ geo.result # "none" /\ geo.fence.geofence_type = "polygon")
    => IF ~geo.fence.is_active \/ geo.fence.coordinates = <<>>
       THEN geo.result = "False"
       ELSE ~C9_OnBoundary(geo.point, geo.fence.coordinates)
            => (geo.result = "True" <=> C9_CrossesOdd(geo.point, geo.fence.coordinates))

\* C9 witness: contains_point answered True for a point strictly inside a
\* polygon with a reflex corner
C9_Witness ==
    /\ geo # <<>>
    /\ geo.result = "True"
    /\ geo.fence.geofence_type = "polygon"
    /\ Len(geo.fence.coordinates) = 4
    /\ ~C9_OnBoundary(geo.point, geo.fence.coordinates)
    /\ \E i, j \in DOMAIN geo.fence.coordinates :
          Orient(Corner(geo.fence.coordinates, i), Corner(geo.fence.coordinates, i + 1),
                 Corner(geo.fence.coordinates, i + 2))
          * Orient(Corner(geo.fence.coordinates, j), Corner(geo.fence.coordinates, j + 1),
                   Corner(geo.fence.coordinates, j + 2)) < 0

\* C10: an active RECTANGLE geofence given as [top-left, bottom-right], the
\* top-left corner at the higher latitude and the lower longitude, contains
\* exactly the points whose latitude and longitude lie between those of the
\* two corners.
C10_RectangleContainment ==
    (geo # <<>> /\ geo.result # "none" /\ geo.fence.geofence_type = "rectangle"
        /\ geo.fence.is_active /\ Len(geo.fence.coordinates) = 2)
    => LET top_left == geo.fence.coordinates[1]
           bottom_right == geo.fence.coordinates[2]
       IN (top_left[1] >= bottom_right[1] /\ top_left[2] <= bottom_right[2])
          => (geo.result = "True"
                <=> /\ bottom_right[1] <= geo.point[1] /\ geo.point[1] <= top_left[1]
                    /\ top_left[2] <= geo.point[2] /\ geo.point[2] <= bottom_right[2])

\* C7: an update_location call never leaves a soft-deleted geofence as the
\* current geofence, and never logs an entry into one.
C7_DeletedGeofenceHidden ==
    (tracking # <<>> /\ response.op = "update_location"
        /\ tracking.current_geofence # None)
    => ~geofences[tracking.current_geofence].is_deleted

\* the enter and exit events logged for geofence g, in order
C8_Events(g) ==
    SelectSeq(tracking_log,
              LAMBDA row : row.geofence = g
                           /\ row.event_type \in {"geofence_enter", "geofence_exit"})

\* C8: the enter and exit events of every geofence alternate, starting with
\* an entry, and the current geofence is G exactly when the latest of the
\* enter and exit events of G is an entry.
C8_EnterExitAlternate ==
    tracking # <<>> =>
    \A g \in GeofenceIds :
        LET ev == C8_Events(g)
        IN /\ \A i \in DOMAIN ev :
                 ev[i].event_type = IF i % 2 = 1 THEN "geofence_enter"
                                    ELSE "geofence_exit"
           /\ tracking.current_geofence = g
                <=> (ev # <<>> /\ ev[Len(ev)].event_type = "geofence_enter")

\* C8 witness: the employee went from one geofence straight into another
\* and back, so the first one has an entry, an exit and an entry again
C8_Witness ==
    /\ tracking # <<>>
    /\ \E g \in GeofenceIds :
          /\ Len(C8_Events(g)) = 3
          /\ tracking.current_geofence = g
          /\ \E i \in DOMAIN tracking_log :
                /\ i > 1
                /\ tracking_log[i] = LogRow("geofence_exit", g)
                /\ tracking_log[i - 1].event_type = "geofence_enter"
\* the part of an income that lies between lower and upper
C11_Part(taxable, lower, upper) == Max(0, Min(taxable, upper) - lower)

\* the marginal-rate tax in paise: every part of the income at the rate
\* (in percent) of its slab; the last slab has no end
C11_MarginalTax(tax_regime, t) ==
    IF tax_regime = "old"
    THEN 5 * C11_Part(t, 250000, 500000) + 20 * C11_Part(t, 500000, 1000000)
         + 30 * Max(0, t - 1000000)
    ELSE 5 * C11_Part(t, 300000, 600000) + 10 * C11_Part(t, 600000, 900000)
         + 15 * C11_Part(t, 900000, 1200000) + 20 * C11_Part(t, 1200000, 1500000)
         + 30 * Max(0, t - 1500000)

\* C11: calculate_tax sets taxable_income to gross income less the sum of
\* the deductions, but at least 0, and total_tax to 1.04 times the
\* marginal-rate slab tax of it; one more rupee of taxable income never
\* lowers the tax and raises it by at most 30 % of a rupee plus cess.
C11_SlabLookup ==
    (tax_rec # <<>> /\ tax_rec.calculated) =>
    LET t == tax_rec.taxable_income
        next == calculate_tax([tax_rec EXCEPT !.gross_income = t + 1,
                                              !.tax_deductions = <<>>],
                              2023, 4).total_tax
    IN /\ t = Max(tax_rec.gross_income - sum_values(tax_rec.tax_deductions), 0)
       /\ tax_rec.total_tax = 26 * C11_MarginalTax(tax_rec.tax_regime, t)
       /\ tax_rec.total_tax <= next
       /\ next - tax_rec.total_tax <= 30 * 26

\* C11 witness: a tax was computed for an income one rupee above the end of
\* a slab that is not the first one, after deductions
C11_Witness ==
    /\ tax_rec # <<>>
    /\ tax_rec.calculated
    /\ tax_rec.tax_deductions # <<>>
    /\ tax_rec.taxable_income - 1 \in SlabEnds \ {0, 250000, 300000}
    /\ tax_rec.total_tax > 0
\* C12: for a logged-in user who is not staff, each of the five record
\* views of a stored, not deleted employee answers with the data when the
\* employee is the user's own profile or reports to the user, and with
\* PermissionDenied otherwise, also for a user without employee profile.
C12_DeniedOrOwn ==
    (/\ response.op \in {"employee_detail", "employee_documents", "employee_contacts",
                         "employee_education", "employee_experience"}
     /\ ~is_staff(response.user)
     /\ response.id \in DOMAIN employees
     /\ ~employees[response.id].is_deleted)
    => LET u == response.user
           id == response.id
           allowed == /\ has_profile(u)
                      /\ \/ employee_profile(u) = id
                         \/ employees[id].reporting_manager = employee_profile(u)
       IN response.code = IF allowed THEN "200" ELSE "403"

\* C13: in employee_create with step 4 and a valid financial form, an
\* exception raised while the session data is rebuilt, the User is created
\* or the Employee is saved is caught: the answer carries an 'Error creating
\* employee' message and renders the form page again, no employee is
\* created, and the wizard's session keys stay as they were.
C13_CreateErrorCaught ==
    [][(/\ response'.op = "employee_create"
        /\ response'.step = 4
        /\ response' # CreateResponse(4, "render", <<"", "">>)
        /\ create_employee.exception # "")
       => /\ response' = CreateResponse(4, "render",
                 <<"Error creating employee", create_employee.exception>>)
          /\ session' = session
          /\ new_employees' = new_employees]_vars

C13_Witness ==
    /\ response = CreateResponse(4, "render",
                      <<"Error creating employee", "IntegrityError">>)
    /\ SessionKeys \ {"has_profile_picture"} \subseteq DOMAIN session
    /\ \E u \in auth_user : \A e \in new_employees : e.user # u

\* C14: process_payroll() on a payroll that is not DRAFT, approve() on one
\* that is not COMPLETED and mark_paid() on one that is not APPROVED raise
\* ValueError and leave the payroll record and every slip as they were.
C14_WrongStatusRaises ==
    [][(\/ response'.op = "process_payroll" /\ payroll.status # "draft"
        \/ response'.op = "approve" /\ payroll.status # "completed"
        \/ response'.op = "mark_paid" /\ payroll.status # "approved")
       => /\ response'.code = "ValueError"
          /\ response'.saves = <<>>
          /\ payroll' = payroll
          /\ salary_slips' = salary_slips]_vars

C14_Witness ==
    /\ response = PayrollResponse("approve", "ValueError", <<>>)
    /\ payroll.status = "paid"
    /\ salary_slips # <<>>
    /\ \A i \in DOMAIN salary_slips : salary_slips[i].payment_status = "paid"

\* the order of the statuses, and the steps between them that a payroll
\* created in DRAFT may take
StatusOrder == <<"draft", "processing", "completed", "approved", "paid">>

C15_Steps ==
    {<<StatusOrder[i], StatusOrder[i + 1]>> : i \in 1..(Len(StatusOrder) - 1)}
        \cup {<<"processing", "draft">>}

\* C15: over any sequence of process_payroll(), approve(), mark_paid() and
\* lock() calls the statuses saved, one after another, only move one step
\* forward along DRAFT, PROCESSING, COMPLETED, APPROVED, PAID, or from
\* PROCESSING back to DRAFT when processing failed; so APPROVED is only
\* reached from COMPLETED and PAID only from APPROVED.
C15_StatusOrder ==
    [][LET written == <<payroll.status>> \o response'.saves
       IN  /\ \A i \in 1..(Len(written) - 1) :
                  \/ written[i + 1] = written[i]
                  \/ <<written[i], written[i + 1]>> \in C15_Steps
           /\ payroll'.status = written[Len(written)]
           /\ <<"processing", "draft">> \in
                  {<<written[i], written[i + 1]>> : i \in 1..(Len(written) - 1)}
                  => response'.code = "raised"]_vars

C15_Witness ==
    /\ payroll.status = "paid"
    /\ response = PayrollResponse("mark_paid", "ok", <<"paid">>)
    /\ Len(salary_slips) > NumEmp

\* C16: once lock() has set is_locked, no later process_payroll(),
\* approve() or mark_paid() call changes the payroll's status or totals or
\* any slip.
C16_LockedIsFrozen ==
    [][payroll.is_locked
       => /\ payroll'.status = payroll.status
          /\ payroll'.total_employees = payroll.total_employees
          /\ payroll'.total_amount = payroll.total_amount
          /\ salary_slips' = salary_slips]_vars

\* C17: when an error occurs while process_payroll() handles the employees
\* the payroll is saved as DRAFT again and the error is raised to the
\* caller; whether the call returns or raises, the payroll is not left in
\* PROCESSING.
C17_NeverLeftProcessing ==
    /\ payroll.status # "processing"
    /\ response.op = "process_payroll" /\ response.code = "raised"
           => /\ payroll.status = "draft"
              /\ response.saves = <<"processing", "draft">>
    /\ response.op = "process_payroll" /\ response.code = "True"
           => /\ payroll.status = "completed"
              /\ response.saves = <<"processing", "completed">>

C17_Witness ==
    /\ response.op = "process_payroll"
    /\ response.code = "raised"
    /\ salary_slips # <<>>
    /\ payroll.total_employees = NumEmp
    /\ payroll.total_amount = 0

\* C18: generate_slip_number returns a number of at least four digits
\* (after the prefix 'SL-<year><month>-') that no existing slip of the
\* payroll month has, also when more than 9999 slips exist.
C18_FreshSlipNumber ==
    [][response'.op = "slip_save"
       => /\ Len(response'.slip_number) >= 4
          /\ \A i \in DOMAIN salary_slips :
                 salary_slips[i].slip_number # response'.slip_number]_vars

\* C19: after cancel() on a leave that was APPROVED, every Attendance row
\* of the employee dated within the leave that was ON_LEAVE is ABSENT, and
\* the leave is CANCELLED.
C19_CancelClearsOnLeave ==
    [][(response'.op = "leave_cancel" /\ leave.status = "approved")
       => /\ leave'.status = "cancelled"
          /\ \A i \in DOMAIN attendance :
                 (/\ attendance[i].employee = leave.employee
                  /\ attendance[i].date >= leave.start_date
                  /\ attendance[i].date <= leave.end_date
                  /\ attendance[i].status = "on_leave")
                 => attendance'[i].status = "absent"]_vars

\* the rows of a table dated on a weekend or on a holiday, with their place
C20_OffRows(table) ==
    {<<i, table[i]>> : i \in {j \in DOMAIN table :
                                 \/ weekday(table[j].date) >= 5
                                 \/ table[j].date \in holidays}}

C20_Marked ==
    (response.op = "leave_approve" /\ leave_loop.pc = "idle")
    => \A d \in Dates :
           (/\ leave.start_date <= d
            /\ d <= leave.end_date
            /\ weekday(d) < 5
            /\ d \notin holidays)
           => /\ Cardinality({i \in DOMAIN attendance :
                                 /\ attendance[i].employee = leave.employee
                                 /\ attendance[i].date = d}) = 1
              /\ \A i \in DOMAIN attendance :
                     (/\ attendance[i].employee = leave.employee
                      /\ attendance[i].date = d)
                     => attendance[i].status = "on_leave"

\* C20: after Leave.approve() every date of the leave that is a weekday
\* and has no Holiday row has exactly one Attendance row of the employee,
\* with status ON_LEAVE; while approve() runs no row dated on a weekend or
\* a holiday is created or changed; and the loop over the dates ends for
\* every start_date and end_date.
C20_ApproveMarksLeave ==
    /\ []C20_Marked
    /\ [][leave_loop.pc = "loop"
          => C20_OffRows(attendance') = C20_OffRows(attendance)]_vars
    /\ (leave_loop.pc = "loop") ~> (leave_loop.pc = "idle")

C20_Witness ==
    /\ response = [op |-> "leave_approve", code |-> "ok"]
    /\ leave.start_date = 1
    /\ leave.end_date = 7
    /\ holidays = {3}
    /\ Len(attendance) = 7
    /\ attendance[1] = [employee |-> 1, date |-> 2, status |-> "on_leave"]
    /\ attendance[3].status = "weekend"

\* C21: end_allocation() leaves its allocation with is_active = False and
\* an end_date; the accommodation becomes AVAILABLE when no other allocation
\* of it is active, and keeps its status when one is.  No other row changes.
C21_EndFreesWhenLast ==
    [][response'.op = "end_allocation"
       => LET pk == response'.pk
              a == allocations[pk].accommodation
              others == {k \in DOMAIN allocations \ {pk} :
                            /\ allocations[k].accommodation = a
                            /\ allocations[k].is_active}
          IN  /\ ~allocations'[pk].is_active
              /\ allocations'[pk].end_date # None
              /\ \A k \in DOMAIN allocations \ {pk} :
                     allocations'[k] = allocations[k]
              /\ others = {} => accommodations'[a].status = "available"
              /\ others # {} => accommodations'[a] = accommodations[a]
              /\ \A b \in AccIds \ {a} :
                     accommodations'[b] = accommodations[b]]_vars

C21_Witness ==
    /\ response.op = "end_allocation"
    /\ response.code = "kept"
    /\ ~allocations[response.pk].is_active
    /\ accommodations[allocations[response.pk].accommodation].status = "occupied"
    /\ \E k \in DOMAIN allocations :
           /\ k # response.pk
           /\ allocations[k].is_active
           /\ allocations[k].accommodation = allocations[response.pk].accommodation

\* C22: complete() changes the status of an accommodation only when it is
\* UNDER_MAINTENANCE and no other request of it is PENDING or IN_PROGRESS;
\* it then becomes OCCUPIED if the accommodation has an active allocation
\* and AVAILABLE otherwise.  In every other case the status stays.
C22_CompleteReleases ==
    [][(response'.op = "complete" /\ response'.code = "ok")
       => LET a == requests[1].accommodation
              open == \E k \in DOMAIN requests \ {1} :
                          /\ requests[k].accommodation = a
                          /\ requests[k].status \in {"pending", "in_progress"}
          IN  IF accommodations[a].status = "under_maintenance" /\ ~open
              THEN accommodations'[a].status =
                       IF active_allocations(allocations, a) # {}
                       THEN "occupied" ELSE "available"
              ELSE accommodations' = accommodations]_vars

\* C23: when Salary.save() calls with is_current = True for one employee
\* run at the same time, each its update and then its insert, the employee
\* has at most one current Salary once all of them have finished.
C23_OneCurrentAfterAll ==
    (\A p \in Procs : savers[p].pc \in {"idle", "done"})
    => \A e \in EmpIds :
           Cardinality({k \in DOMAIN salaries :
                           salaries[k].employee = e /\ salaries[k].is_current})
               <= 1

====
